---- MODULE Spec2Model ----
(***************************************************************************)
(* Model of src/components/ChatInterface.tsx: the profile-extraction and   *)
(* conversation-staging logic of the chat component.                       *)
(*                                                                         *)
(* Text is modelled by TLA+ strings; toLowerCase, includes, trim and join  *)
(* are computed character by character.  A JavaScript object is a function *)
(* whose DOMAIN is the set of keys that are present.  Every invocation of  *)
(* the async function handleSubmit is a "turn" with its own locals; the    *)
(* steps of a turn are the synchronous stretches between two awaits.       *)
(*                                                                         *)
(* The draft (the textarea's text and the attached files, which onChange,  *)
(* handleFileAttach and removeAttachment edit between two submissions) is  *)
(* an input of the submission: handleSubmit reads it and resets it.        *)
(***************************************************************************)
EXTENDS Integers, Sequences, FiniteSets, TLC

VARIABLES messages, isLoading, userProfile, turns, now, toast, calls

vars == <<messages, isLoading, userProfile, turns, now, toast, calls>>

-----------------------------------------------------------------------------
(* Bounds of the model *)

MaxTurns == 2
MaxFiles == 2
MaxChunks == 2
MaxClock == 1

-----------------------------------------------------------------------------
(* The inputs the environment can supply *)

MsgMIT == "I'm majoring in computer science and applying to MIT"
MsgStudy == "I love to study"
MsgClub == "My College ESSAY on chess Club"
MsgBig == "School prompt: volunteer in AP Bio, my passion and a prize"
MsgNone == "Happy to be here"
MsgBlank == "  "

Texts == {MsgMIT, MsgStudy, MsgClub, MsgBig, MsgNone, MsgBlank}

\* the files of the picker, and the selections a user submits: the first n
\* files, in either order
FileOrder == <<"a.pdf", "b.txt", "c.docx", "d.rtf">>

Reverse(xs) == [k \in 1..Len(xs) |-> xs[Len(xs) + 1 - k]]

FileLists ==
    {SubSeq(FileOrder, 1, n) : n \in 0..MaxFiles}
        \cup {Reverse(SubSeq(FileOrder, 1, n)) : n \in 0..MaxFiles}

ExtractedTexts == {"x"}

\* the simulated stream of the generation service: the n-th chunk of turn i
ChunkAt(i, n) ==
    IF n % 3 = 1 THEN "Hel" \o ToString(i)
    ELSE IF n % 3 = 2 THEN "lo "
    ELSE "World"

\* Date.now() at the time the component is mounted (ids are clock readings;
\* the welcome message has the fixed id 1)
ClockStart == 5

-----------------------------------------------------------------------------
(* String helpers: String.prototype.toLowerCase, includes, trim; Array.join *)

Upper == <<"A","B","C","D","E","F","G","H","I","J","K","L","M",
           "N","O","P","Q","R","S","T","U","V","W","X","Y","Z">>
Lower == <<"a","b","c","d","e","f","g","h","i","j","k","l","m",
           "n","o","p","q","r","s","t","u","v","w","x","y","z">>

LowerChar(c) ==
    IF \E i \in 1..26 : Upper[i] = c
    THEN Lower[CHOOSE i \in 1..26 : Upper[i] = c]
    ELSE c

RECURSIVE toLowerCase(_)
toLowerCase(s) ==
    IF Len(s) = 0 THEN ""
    ELSE LowerChar(SubSeq(s, 1, 1)) \o toLowerCase(SubSeq(s, 2, Len(s)))

\* variant of includes: String.prototype.startsWith in its place
includesAtStart(s, kw) == Len(kw) <= Len(s) /\ SubSeq(s, 1, Len(kw)) = kw

includes(s, kw) ==
    \E i \in 1..(Len(s) - Len(kw) + 1) : SubSeq(s, i, i + Len(kw) - 1) = kw

IsSpace(c) == c \in {" ", "\t", "\n", "\r"}

RECURSIVE trimStart(_)
trimStart(s) ==
    IF Len(s) > 0 /\ IsSpace(SubSeq(s, 1, 1))
    THEN trimStart(SubSeq(s, 2, Len(s)))
    ELSE s

RECURSIVE trimEnd(_)
trimEnd(s) ==
    IF Len(s) > 0 /\ IsSpace(SubSeq(s, Len(s), Len(s)))
    THEN trimEnd(SubSeq(s, 1, Len(s) - 1))
    ELSE s

trim(s) == trimEnd(trimStart(s))

RECURSIVE join(_, _)
join(xs, sep) ==
    IF Len(xs) = 0 THEN ""
    ELSE IF Len(xs) = 1 THEN xs[1]
    ELSE xs[1] \o sep \o join(Tail(xs), sep)

\* variant of MathRoundPercent: Math.floor in the place of Math.round
MathFloorPercent(num, den) == (100 * num) \div den

\* Math.round(num / den * 100) for non-negative integers: floor(x + 0.5)
MathRoundPercent(num, den) == (200 * num + den) \div (2 * den)

-----------------------------------------------------------------------------
(* Field classifier *)

fields == <<"major", "colleges", "essayPrompts", "extracurriculars",
            "classes", "hobbies", "awards">>

Fields == {fields[i] : i \in 1..Len(fields)}

\* variant of Keywords: the keywords "ap " and "ib " without their space
KeywordsTrimmed(f) ==
    CASE f = "major" -> {"major", "study", "field"}
      [] f = "colleges" -> {"college", "university", "school"}
      [] f = "essayPrompts" -> {"essay", "prompt", "question"}
      [] f = "extracurriculars" ->
            {"extracurricular", "activity", "club", "volunteer", "leadership"}
      [] f = "classes" -> {"class", "course", "ap", "honors", "ib"}
      [] f = "hobbies" -> {"hobby", "interest", "passion", "enjoy", "love"}
      [] f = "awards" ->
            {"award", "recognition", "achievement", "honor", "prize"}

Keywords(f) ==
    CASE f = "major" -> {"major", "study", "field"}
      [] f = "colleges" -> {"college", "university", "school"}
      [] f = "essayPrompts" -> {"essay", "prompt", "question"}
      [] f = "extracurriculars" ->
            {"extracurricular", "activity", "club", "volunteer", "leadership"}
      [] f = "classes" -> {"class", "course", "ap ", "honors", "ib "}
      [] f = "hobbies" -> {"hobby", "interest", "passion", "enjoy", "love"}
      [] f = "awards" ->
            {"award", "recognition", "achievement", "honor", "prize"}

\* one of the seven conditions of analyzeUserInput
Triggered(lowerText, f) == \E kw \in Keywords(f) : includes(lowerText, kw)

\* The Partial<UserProfile> returned for a text: major holds the text,
\* every other field a one-element array holding the text.
analyzeUserInput(text) ==
    LET lowerText == toLowerCase(text)
    IN  [f \in {g \in Fields : Triggered(lowerText, g)} |->
            IF f = "major" THEN text ELSE <<text>>]

-----------------------------------------------------------------------------
(* Profile store *)

\* JavaScript truthiness of a profile value: a string is truthy when it is
\* not empty, an array always
Truthy(k, v) == IF k = "major" THEN Len(v) > 0 ELSE TRUE

\* the filter predicate of calculateCompleteness
Populated(profile, f) ==
    /\ f \in DOMAIN profile
    /\ Truthy(f, profile[f])
    /\ Len(profile[f]) > 0

calculateCompleteness(profile) ==
    LET completedFields == {f \in Fields : Populated(profile, f)}
    IN  MathRoundPercent(Cardinality(completedFields), Len(fields))

\* variant of mergeExtracted: updatedProfile starts without the fields of
\* the stored profile
mergeExtractedNoSpread(profile, extractedInfo) ==
    LET present == {k \in DOMAIN extractedInfo : Truthy(k, extractedInfo[k])}
    IN  [k \in {"completeness"} \cup present |->
            IF k \in present THEN extractedInfo[k] ELSE profile[k]]

\* variant of mergeExtracted: the new fragment is put before the stored ones
mergeExtractedPrepend(profile, extractedInfo) ==
    LET present == {k \in DOMAIN extractedInfo : Truthy(k, extractedInfo[k])}
    IN  [k \in DOMAIN profile \cup present |->
            IF k \in present
            THEN IF k # "major"
                 THEN extractedInfo[k]
                          \o (IF k \in DOMAIN profile THEN profile[k] ELSE <<>>)
                 ELSE extractedInfo[k]
            ELSE profile[k]]

\* the forEach over Object.keys(extractedInfo)
mergeExtracted(profile, extractedInfo) ==
    LET present == {k \in DOMAIN extractedInfo : Truthy(k, extractedInfo[k])}
    IN  [k \in DOMAIN profile \cup present |->
            IF k \in present
            THEN IF k # "major"
                 THEN (IF k \in DOMAIN profile THEN profile[k] ELSE <<>>)
                          \o extractedInfo[k]
                 ELSE extractedInfo[k]
            ELSE profile[k]]

\* variant of mergeProfile: the profile read is the one of the first render
\* and not the stored one
mergeProfileOfMount(profile, text) ==
    LET merged == mergeExtracted([completeness |-> 0], analyzeUserInput(text))
    IN  [merged EXCEPT !.completeness = calculateCompleteness(merged)]

\* updatedProfile as handleSubmit builds it from the rendered userProfile
mergeProfile(profile, text) ==
    LET merged == mergeExtracted(profile, analyzeUserInput(text))
    IN  [merged EXCEPT !.completeness = calculateCompleteness(merged)]

(* Stage selector *)

\* variant of getConversationStage: the threshold compared with <= and >
getConversationStageInclusive(profile) ==
    IF profile.completeness <= 60 THEN "collection"
    ELSE IF profile.completeness > 60 THEN "generation"
    ELSE "refinement"

getConversationStage(profile) ==
    IF profile.completeness < 60 THEN "collection"
    ELSE IF profile.completeness >= 60 THEN "generation"
    ELSE "refinement"

-----------------------------------------------------------------------------
(* Prompt assembler *)

OrNotSpecified(s) == IF Len(s) > 0 THEN s ELSE "Not specified"

RenderList(profile, f, sep) ==
    OrNotSpecified(IF f \in DOMAIN profile THEN join(profile[f], sep) ELSE "")

profileContext(profile, stage) ==
    [major |-> OrNotSpecified(IF "major" \in DOMAIN profile
                              THEN profile["major"] ELSE ""),
     colleges |-> RenderList(profile, "colleges", ", "),
     essayPrompts |-> RenderList(profile, "essayPrompts", "; "),
     extracurriculars |-> RenderList(profile, "extracurriculars", ", "),
     classes |-> RenderList(profile, "classes", ", "),
     hobbies |-> RenderList(profile, "hobbies", ", "),
     awards |-> RenderList(profile, "awards", ", "),
     completeness |-> ToString(profile.completeness) \o "%",
     stage |-> stage]

\* the three branches on conversationStage; the instruction text of a branch
\* is named by its heading
systemPrompt(profile, stage, text, attachmentContext) ==
    [instructions |->
        IF stage = "collection" THEN "INFORMATION COLLECTION"
        ELSE IF stage = "generation" THEN "NARRATIVE GENERATION"
        ELSE "REFINEMENT",
     profileContext |-> profileContext(profile, stage),
     latest |-> text \o attachmentContext]

(* Attachment resolver: the two kinds of labelled block *)

ContentBlock(name, extractedText) ==
    "\n\nContent from " \o name \o ":\n" \o extractedText

FailureBlock(name) == "\n\nNote: Could not process " \o name

\* variant of appendBlock: the block is put before the context
prependBlock(attachmentContext, block) == block \o attachmentContext

\* attachmentContext += block
appendBlock(attachmentContext, block) == attachmentContext \o block

-----------------------------------------------------------------------------
(* State *)

\* the first sentence of the welcome text stands for the whole of it
WelcomeContent == "Welcome to StoryMode AI!"

\* the locals of one invocation of handleSubmit.  pc is the await the
\* invocation is suspended at: "extract" (extractFromBlob of the file at
\* fileIdx), "stream" (streamText), or "done" once the finally block has run.
\* outcomes and received record what the two services have delivered,
\* submittedAt the clock reading of the submission, and assistantAt the place
\* in messages where the turn put its assistant message.
NewTurn ==
    [pc |-> "start", submittedAt |-> 0, input |-> "", attachedFiles |-> <<>>,
     updatedProfile |-> [completeness |-> 0],
     fileIdx |-> 0, attachmentContext |-> "", outcomes |-> <<>>,
     assistantId |-> 0, assistantAt |-> 0,
     assistantResponse |-> "", received |-> <<>>,
     failed |-> FALSE]

NoToast == [title |-> "", description |-> ""]

Init ==
    /\ messages = <<[id |-> 1, role |-> "assistant",
                     content |-> WelcomeContent, attachments |-> <<>>]>>
    /\ isLoading = FALSE
    /\ userProfile = [completeness |-> 0]
    /\ turns = <<>>
    /\ now = ClockStart
    /\ toast = NoToast
    /\ calls = <<>>

-----------------------------------------------------------------------------
(* Operations.  E is the environment of a specification: the texts the    *)
(* user types, the file selections of the picker, and the bounds.         *)

\* Date.now() advances
Tick(E) ==
    /\ now < ClockStart + E.maxClock
    /\ now' = now + 1
    /\ UNCHANGED <<messages, isLoading, userProfile, turns, toast, calls>>

\* setMessages(prev => prev.map(msg => msg.id === id ? {...msg, content} : msg))
publishContent(msgs, id, content) ==
    [k \in 1..Len(msgs) |->
        IF msgs[k].id = id THEN [msgs[k] EXCEPT !.content = content]
        ELSE msgs[k]]

\* handleSubmit from the end of the attachment loop to the call of
\* streamText: stage, prompt, the empty assistant message, the call.
\* ts and msgs are the turns and the messages so far, tr the locals of
\* turn i, clock the reading of Date.now().
startGeneration(i, tr, ts, msgs, clock) ==
    LET conversationStage == getConversationStage(tr.updatedProfile)
        prompt == systemPrompt(tr.updatedProfile, conversationStage,
                               tr.input, tr.attachmentContext)
        assistantMessage == [id |-> clock + 1, role |-> "assistant",
                             content |-> "", attachments |-> <<>>]
    IN  /\ messages' = Append(msgs, assistantMessage)
        /\ calls' = Append(calls, [turn |-> i, stage |-> conversationStage,
                                   prompt |-> prompt])
        /\ turns' = [ts EXCEPT ![i] =
                        [tr EXCEPT !.pc = "stream",
                                   !.assistantId = assistantMessage.id,
                                   !.assistantAt = Len(msgs) + 1]]

\* handleSubmit up to its first await, for the draft (input, attachedFiles);
\* setInput('') and setAttachedFiles([]) empty the draft
handleSubmit(input, attachedFiles, E) ==
    /\ Len(turns) < E.maxTurns
    /\ Len(attachedFiles) <= E.maxFiles
    /\ ~(Len(trim(input)) = 0 /\ Len(attachedFiles) = 0)
    /\ LET i == Len(turns) + 1
           userMessage == [id |-> now, role |-> "user", content |-> input,
                           attachments |-> attachedFiles]
           updatedProfile == mergeProfile(userProfile, input)
           tr == [NewTurn EXCEPT !.submittedAt = now,
                                 !.input = input,
                                 !.attachedFiles = attachedFiles,
                                 !.updatedProfile = updatedProfile]
       IN  /\ userProfile' = updatedProfile
           /\ isLoading' = TRUE
           /\ IF Len(attachedFiles) > 0
              THEN /\ messages' = Append(messages, userMessage)
                   /\ turns' = Append(turns,
                                   [tr EXCEPT !.pc = "extract", !.fileIdx = 1])
                   /\ UNCHANGED calls
              ELSE startGeneration(i, tr, Append(turns, tr),
                                   Append(messages, userMessage), now)
    /\ UNCHANGED <<now, toast>>

\* Enter without Shift in the textarea
onKeyDown(input, attachedFiles, E) == handleSubmit(input, attachedFiles, E)

\* the send button, disabled while loading or while the draft is empty
onSubmit(input, attachedFiles, E) ==
    /\ ~(isLoading \/ (Len(trim(input)) = 0 /\ Len(attachedFiles) = 0))
    /\ handleSubmit(input, attachedFiles, E)

\* the await of extractFromBlob settles; ok says whether it resolved
afterExtract(i, ok, extractedText) ==
    /\ turns[i].pc = "extract"
    /\ LET tr == turns[i]
           file == tr.attachedFiles[tr.fileIdx]
           block == IF ok THEN ContentBlock(file, extractedText)
                    ELSE FailureBlock(file)
           tr2 == [tr EXCEPT
                     !.attachmentContext =
                         appendBlock(tr.attachmentContext, block),
                     !.outcomes = Append(tr.outcomes,
                                         [ok |-> ok, text |-> extractedText])]
       IN  IF tr.fileIdx < Len(tr.attachedFiles)
           THEN /\ turns' = [turns EXCEPT ![i] =
                                [tr2 EXCEPT !.fileIdx = tr.fileIdx + 1]]
                /\ UNCHANGED <<messages, calls>>
           ELSE startGeneration(i, tr2, turns, messages, now)
    /\ UNCHANGED <<isLoading, userProfile, now, toast>>

extractResolved(i, extractedText) == afterExtract(i, TRUE, extractedText)

\* variant of extractRejected: without the inner try/catch the rejection
\* reaches the outer catch and the finally block
extractRejectedAborts(i) ==
    /\ turns[i].pc = "extract"
    /\ turns' = [turns EXCEPT ![i].pc = "done", ![i].failed = TRUE]
    /\ toast' = [title |-> "Error",
                 description |->
                     "Failed to generate response. Please try again."]
    /\ isLoading' = FALSE
    /\ UNCHANGED <<messages, userProfile, now, calls>>

extractRejected(i) == afterExtract(i, FALSE, "")

\* the chunk callback of streamText
onChunk(i, E) ==
    /\ turns[i].pc = "stream"
    /\ Len(turns[i].received) < E.maxChunks
    /\ LET chunk == ChunkAt(i, Len(turns[i].received) + 1)
           assistantResponse == turns[i].assistantResponse \o chunk
       IN  /\ turns' = [turns EXCEPT
                          ![i].assistantResponse = assistantResponse,
                          ![i].received = Append(@, chunk)]
           /\ messages' = publishContent(messages, turns[i].assistantId,
                                         assistantResponse)
    /\ UNCHANGED <<isLoading, userProfile, now, toast, calls>>

\* streamText resolves: the finally block
streamResolved(i) ==
    /\ turns[i].pc = "stream"
    /\ turns' = [turns EXCEPT ![i].pc = "done"]
    /\ isLoading' = FALSE
    /\ UNCHANGED <<messages, userProfile, now, toast, calls>>

\* variant of streamRejected: the catch block empties the assistant message
streamRejectedRollsBack(i) ==
    /\ turns[i].pc = "stream"
    /\ turns' = [turns EXCEPT ![i].pc = "done", ![i].failed = TRUE]
    /\ messages' = publishContent(messages, turns[i].assistantId, "")
    /\ toast' = [title |-> "Error",
                 description |->
                     "Failed to generate response. Please try again."]
    /\ isLoading' = FALSE
    /\ UNCHANGED <<userProfile, now, calls>>

\* streamText rejects: the catch block, then the finally block
streamRejected(i) ==
    /\ turns[i].pc = "stream"
    /\ turns' = [turns EXCEPT ![i].pc = "done", ![i].failed = TRUE]
    /\ toast' = [title |-> "Error",
                 description |->
                     "Failed to generate response. Please try again."]
    /\ isLoading' = FALSE
    /\ UNCHANGED <<messages, userProfile, now, calls>>

\* the user needs time to compose a draft: a submission is at least one
\* tick of the clock after the previous one
DraftComposed == \A j \in 1..Len(turns) : turns[j].submittedAt < now

NextIn(E) ==
    \/ Tick(E)
    \/ \E text \in E.texts, files \in E.fileLists :
          DraftComposed /\ onKeyDown(text, files, E)
    \/ \E text \in E.texts, files \in E.fileLists :
          DraftComposed /\ onSubmit(text, files, E)
    \/ \E i \in 1..Len(turns), t \in ExtractedTexts : extractResolved(i, t)
    \/ \E i \in 1..Len(turns) : extractRejected(i)
    \/ \E i \in 1..Len(turns) : onChunk(i, E)
    \/ \E i \in 1..Len(turns) : streamResolved(i)
    \/ \E i \in 1..Len(turns) : streamRejected(i)

\* the environments: every text with at most one attachment, and one text
\* with every selection of files
ProfileEnv ==
    [texts |-> Texts, fileLists |-> {<<>>, <<FileOrder[1]>>},
     maxTurns |-> MaxTurns, maxFiles |-> MaxFiles,
     maxChunks |-> MaxChunks, maxClock |-> MaxClock]

AsyncEnv ==
    [texts |-> {MsgNone}, fileLists |-> FileLists,
     maxTurns |-> MaxTurns, maxFiles |-> MaxFiles,
     maxChunks |-> MaxChunks, maxClock |-> MaxClock]

Next == NextIn(ProfileEnv)

Spec == Init /\ [][Next]_vars

NextAsync == NextIn(AsyncEnv)

SpecAsync == Init /\ [][NextAsync]_vars

-----------------------------------------------------------------------------
(* Properties *)

\* the trigger sets of the seven fields as the specification lists them
TriggerSet(f) ==
    CASE f = "major" -> {"major", "study", "field"}
      [] f = "colleges" -> {"college", "university", "school"}
      [] f = "essayPrompts" -> {"essay", "prompt", "question"}
      [] f = "extracurriculars" ->
            {"extracurricular", "activity", "club", "volunteer", "leadership"}
      [] f = "classes" -> {"class", "course", "ap ", "honors", "ib "}
      [] f = "hobbies" -> {"hobby", "interest", "passion", "enjoy", "love"}
      [] f = "awards" ->
            {"award", "recognition", "achievement", "honor", "prize"}

NoTrigger(text) ==
    \A f \in Fields : \A kw \in TriggerSet(f) :
        ~includes(toLowerCase(text), kw)

Abs(x) == IF x < 0 THEN -x ELSE x

\* the number of the seven fields that hold a non-empty text or sequence
PopulatedCount(profile) ==
    Cardinality({f \in Fields : f \in DOMAIN profile /\ Len(profile[f]) > 0})

\* the step is a submission: handleSubmit has started one more turn
Submitted == Len(turns') = Len(turns) + 1

CallsOf(i) == {k \in 1..Len(calls) : calls[k].turn = i}

\* C1: in every reachable state the stored profile's completeness is
\* round(100 * k / 7) for the number k of populated fields, hence one of
\* 0, 14, 29, 43, 57, 71, 86, 100.
C1_CompletenessIsLive ==
    LET k == PopulatedCount(userProfile)
        c == userProfile.completeness
    IN  /\ c \in {0, 14, 29, 43, 57, 71, 86, 100}
        /\ 2 * Abs(7 * c - 100 * k) <= 7

\* C1 witness: a conversation that has populated all seven fields
C1_Witness ==
    /\ PopulatedCount(userProfile) = 7
    /\ userProfile.completeness = 100

\* C2: from one state to the next the stored completeness never decreases
\* and no populated field becomes unpopulated.
C2_Monotone ==
    [][/\ userProfile'.completeness >= userProfile.completeness
       /\ \A f \in Fields :
            (f \in DOMAIN userProfile /\ Len(userProfile[f]) > 0)
                => (f \in DOMAIN userProfile' /\ Len(userProfile'[f]) > 0)]_vars

\* C2 witness: two submissions, each of which raised the completeness
C2_Witness ==
    /\ Len(turns) = 2
    /\ 0 < turns[1].updatedProfile.completeness
    /\ turns[1].updatedProfile.completeness < userProfile.completeness

\* C3 as stated: the first message "I'm majoring in computer science and
\* applying to MIT" populates major and colleges, completeness becomes 29
\* and the stage is collection.
C3_Scenario ==
    (Len(turns) >= 1 /\ turns[1].input = MsgMIT) =>
        LET p == turns[1].updatedProfile
        IN  /\ "major" \in DOMAIN p
            /\ "colleges" \in DOMAIN p
            /\ p.completeness = 29
            /\ \A k \in CallsOf(1) : calls[k].stage = "collection"

\* C3 amended: the conversation starts with the empty profile (completeness
\* 0); the first message "I'm majoring in computer science and applying to
\* MIT" populates major only (the text holds no keyword of colleges),
\* completeness becomes 14 (1 of 7 fields) and the stage is collection.
C3_ScenarioMajorOnly ==
    /\ Len(turns) = 0 => userProfile = [completeness |-> 0]
    /\ (Len(turns) >= 1 /\ turns[1].input = MsgMIT) =>
        LET p == turns[1].updatedProfile
        IN  /\ DOMAIN p \cap Fields = {"major"}
            /\ p["major"] = MsgMIT
            /\ p.completeness = 14
            /\ \A k \in CallsOf(1) : calls[k].stage = "collection"

\* C3 witness: that message was the first one, its profile is the stored
\* one and its prompt has been sent
C3_Witness ==
    /\ Len(turns) = 1
    /\ turns[1].input = MsgMIT
    /\ userProfile = turns[1].updatedProfile
    /\ CallsOf(1) # {}

\* C4: a submission whose text holds no keyword of any trigger set (empty
\* or blank text with attachments included) classifies to no field and
\* leaves the stored profile as it was.
C4_NoKeywordNoChange ==
    [][(Submitted /\ NoTrigger(turns'[Len(turns')].input)) =>
          /\ DOMAIN analyzeUserInput(turns'[Len(turns')].input) = {}
          /\ userProfile' = userProfile]_vars

\* C4 witness: a blank text with an attachment was submitted after a
\* message that had populated the profile, which is as that message left it
C4_Witness ==
    /\ Len(turns) = 2
    /\ turns[2].input = MsgBlank
    /\ Len(turns[2].attachedFiles) > 0
    /\ turns[1].updatedProfile.completeness > 0
    /\ userProfile = turns[1].updatedProfile

\* C5: a submission merges the classifier output of its text: major, when
\* present, replaces the stored major; the fragment of each multi-valued
\* field present is appended after the stored fragments, which keep their
\* order; a field that is absent from the output is left as it was.
C5_Merge ==
    [][Submitted =>
          LET info == analyzeUserInput(turns'[Len(turns')].input)
          IN  \A f \in Fields :
                IF f \in DOMAIN info
                THEN /\ f \in DOMAIN userProfile'
                     /\ IF f = "major"
                        THEN userProfile'[f] = info[f]
                        ELSE LET old == IF f \in DOMAIN userProfile
                                        THEN userProfile[f] ELSE <<>>
                                 new == userProfile'[f]
                             IN  /\ Len(new) = Len(old) + Len(info[f])
                                 /\ SubSeq(new, 1, Len(old)) = old
                                 /\ SubSeq(new, Len(old) + 1, Len(new))
                                        = info[f]
                ELSE /\ f \in DOMAIN userProfile' <=> f \in DOMAIN userProfile
                     /\ f \in DOMAIN userProfile
                            => userProfile'[f] = userProfile[f]]_vars

\* C5 witness: a second message appended its fragment to hobbies behind the
\* fragment of the first and set major, the other fields being kept
C5_Witness ==
    /\ Len(turns) = 2
    /\ turns[1].input = MsgBig
    /\ turns[2].input = MsgStudy
    /\ userProfile["hobbies"] = <<MsgBig, MsgStudy>>
    /\ userProfile["major"] = MsgStudy
    /\ userProfile["awards"] = <<MsgBig>>

\* C6: the stage selected for a profile is collection exactly when its
\* completeness is below 60 and generation exactly when it is 60 or more
\* (59 gives collection, 60 generation); refinement is never selected and
\* its prompt is never sent.
C6_Stage ==
    /\ \A k \in 1..Len(calls) :
          LET c == turns[calls[k].turn].updatedProfile.completeness
          IN  /\ calls[k].stage = "collection" <=> c < 60
              /\ calls[k].stage = "generation" <=> c >= 60
              /\ calls[k].stage # "refinement"
              /\ calls[k].prompt.instructions # "REFINEMENT"
              /\ calls[k].prompt.profileContext.stage = calls[k].stage
    /\ getConversationStage(userProfile) =
          (IF userProfile.completeness < 60 THEN "collection"
           ELSE "generation")
    /\ getConversationStage([completeness |-> 59]) = "collection"
    /\ getConversationStage([completeness |-> 60]) = "generation"

\* C6 witness: a prompt of each of the two stages has been sent
C6_Witness ==
    /\ \E k \in 1..Len(calls) : calls[k].stage = "collection"
    /\ \E k \in 1..Len(calls) :
          /\ calls[k].stage = "generation"
          /\ calls[k].prompt.instructions = "NARRATIVE GENERATION"

\* the context the claim asks for: one block per settled attachment, in the
\* order of the attached files
RECURSIVE ExpectedContext(_, _)
ExpectedContext(files, outcomes) ==
    IF Len(outcomes) = 0 THEN ""
    ELSE LET n == Len(outcomes)
         IN  ExpectedContext(files, SubSeq(outcomes, 1, n - 1))
                 \o (IF outcomes[n].ok
                     THEN ContentBlock(files[n], outcomes[n].text)
                     ELSE FailureBlock(files[n]))

\* C7: the attachment context of every prompt sent holds one labelled block
\* per attachment of its turn, in the order of submission: the content block
\* of each extraction that succeeded, the "Could not process" block of each
\* one that failed.
C7_AttachmentBlocks ==
    /\ \A k \in 1..Len(calls) :
          LET tr == turns[calls[k].turn]
          IN  /\ Len(tr.outcomes) = Len(tr.attachedFiles)
              /\ calls[k].prompt.latest =
                    tr.input \o ExpectedContext(tr.attachedFiles, tr.outcomes)
    /\ \A i \in 1..Len(turns) :
          turns[i].attachmentContext =
              ExpectedContext(turns[i].attachedFiles, turns[i].outcomes)

\* C7 witness: a prompt was sent for two attachments of which the first
\* failed and the second succeeded
C7_Witness ==
    \E k \in 1..Len(calls) :
        LET tr == turns[calls[k].turn]
        IN  /\ tr.attachedFiles = <<"b.txt", "a.pdf">>
            /\ Len(tr.outcomes) = 2
            /\ ~tr.outcomes[1].ok
            /\ tr.outcomes[2].ok

\* C8: the generation service is called for a turn only once every
\* attachment of the turn has settled, and then exactly once, whether
\* extractions failed or not: no turn is past its attachments without its
\* call.
C8_GenerationAfterExtraction ==
    \A i \in 1..Len(turns) :
        /\ turns[i].pc \in {"extract", "stream", "done"}
        /\ turns[i].pc = "extract" =>
              /\ CallsOf(i) = {}
              /\ Len(turns[i].outcomes) < Len(turns[i].attachedFiles)
        /\ turns[i].pc \in {"stream", "done"} =>
              /\ Cardinality(CallsOf(i)) = 1
              /\ Len(turns[i].outcomes) = Len(turns[i].attachedFiles)

\* C8 witness: a turn both of whose attachments failed has made its call
C8_Witness ==
    \E i \in 1..Len(turns) :
        /\ Len(turns[i].attachedFiles) = 2
        /\ Len(turns[i].outcomes) = 2
        /\ \A n \in 1..2 : ~turns[i].outcomes[n].ok
        /\ Cardinality(CallsOf(i)) = 1

\* C9: the assistant message of a turn is added empty, and after the n-th
\* chunk of the turn's stream its content is the concatenation of the chunks
\* 1..n in the order received, whatever the other turns do.
C9_ContentIsChunksSoFar ==
    \A i \in 1..Len(turns) :
        turns[i].pc \in {"stream", "done"} =>
            messages[turns[i].assistantAt].content
                = join(turns[i].received, "")

\* C10: once a later message has been submitted, a chunk of the earlier
\* turn's stream changes no message of the conversation.
C10_AbandonedChunksDiscarded ==
    [][\A i \in 1..Len(turns) :
          (Len(turns) > i /\ turns'[i].received # turns[i].received)
              => messages' = messages]_vars

\* C11: a user message keeps the content it was created with: no step
\* changes the content of a message of role user, whatever chunks arrive and
\* however the turns interleave.
C11_UserContentImmutable ==
    [][\A k \in 1..Len(messages) :
          messages[k].role = "user" =>
              /\ k <= Len(messages')
              /\ messages'[k].content = messages[k].content]_vars

\* C12: once the generation call of a turn has completed or failed, no step
\* changes the content of the turn's assistant message; no step changes the
\* welcome message.
C12_EndedStreamImmutable ==
    [][/\ messages'[1] = messages[1]
       /\ \A i \in 1..Len(turns) :
            turns[i].pc = "done" =>
                messages'[turns[i].assistantAt].content
                    = messages[turns[i].assistantAt].content]_vars

\* a turn in flight: handleSubmit has started it and its finally block has
\* not run yet
InFlight(i) == turns[i].pc # "done"

\* C16: the loading flag covers every turn in flight: while some turn has
\* started and has not finished its generation call isLoading is true, so
\* neither Enter nor the send button starts a turn while one is in flight,
\* and a turn that finishes does not clear the flag of one that is streaming.
C16_LoadingCoversTurns ==
    (\E i \in 1..Len(turns) : InFlight(i)) => isLoading

\* C17: no two messages of the conversation share an id.
C17_IdsUnique ==
    \A k, l \in 1..Len(messages) :
        messages[k].id = messages[l].id => k = l

\* the notification of the catch block
ErrorToast ==
    [title |-> "Error",
     description |-> "Failed to generate response. Please try again."]

\* the step is the failure of the generation call of turn i
GenerationFails(i) == ~turns[i].failed /\ turns'[i].failed

\* C13: when the generation call of a turn fails, before or during
\* streaming, the failure is reported through the toast, the turn's assistant
\* message stays in the conversation with the content it had reached (no
\* message is changed or removed), the stored profile is kept, and the turn
\* ends with isLoading false.
C13_GenerationFailure ==
    [][\A i \in 1..Len(turns) :
          GenerationFails(i) =>
              /\ toast' = ErrorToast
              /\ messages' = messages
              /\ turns[i].assistantAt \in 1..Len(messages')
              /\ messages'[turns[i].assistantAt].role = "assistant"
              /\ messages'[turns[i].assistantAt].id = turns[i].assistantId
              /\ turns'[i].assistantResponse = turns[i].assistantResponse
              /\ userProfile' = userProfile
              /\ turns'[i].pc = "done"
              /\ isLoading' = FALSE]_vars

\* C13 witness: the generation call of a turn that had populated the profile
\* failed after its first chunk; the message holds that chunk, the profile
\* is the merged one, the toast is shown and isLoading is false
C13_Witness ==
    /\ Len(turns) = 1
    /\ turns[1].failed
    /\ turns[1].received = <<ChunkAt(1, 1)>>
    /\ messages[turns[1].assistantAt].content = ChunkAt(1, 1)
    /\ userProfile.completeness > 0
    /\ userProfile = turns[1].updatedProfile
    /\ toast = ErrorToast
    /\ ~isLoading

\* the fields the classifier assigns to each text
FieldsOf == [t \in Texts |-> DOMAIN analyzeUserInput(t)]

\* the texts of the first n turns that the classifier assigns to field f,
\* in the order of submission
RECURSIVE FragmentsOf(_, _)
FragmentsOf(f, n) ==
    IF n = 0 THEN <<>>
    ELSE FragmentsOf(f, n - 1)
             \o (IF f \in FieldsOf[turns[n].input]
                 THEN <<turns[n].input>> ELSE <<>>)

\* what the stored profile holds once every submitted message is merged
AllMerged ==
    \A f \in Fields :
        LET frags == FragmentsOf(f, Len(turns))
        IN  IF Len(frags) = 0 THEN f \notin DOMAIN userProfile
            ELSE /\ f \in DOMAIN userProfile
                 /\ userProfile[f] =
                       (IF f = "major" THEN frags[Len(frags)] ELSE frags)

\* C14: the read-merge-publish of a turn is one step (the submission stores
\* the profile the turn merged, and no other step of a turn writes the
\* profile), so in every state, turns overlapping or not, the stored profile
\* holds the fragments of every submitted message: no update is lost.
C14_NoLostUpdate ==
    [][/\ AllMerged'
       /\ IF Submitted
          THEN userProfile' = turns'[Len(turns')].updatedProfile
          ELSE userProfile' = userProfile]_vars

\* C14 witness: a second message was merged while the first turn was still
\* extracting its attachment, and the profile holds the fragments of both
C14_Witness ==
    /\ Len(turns) = 2
    /\ turns[1].pc = "extract"
    /\ turns[1].input = MsgStudy
    /\ turns[2].input = MsgBig
    /\ userProfile["hobbies"] = <<MsgStudy, MsgBig>>
    /\ userProfile["major"] = MsgStudy
    /\ userProfile.completeness = 100

\* the rendering of a field: its text, or its fragments joined, or the
\* literal "Not specified" when it is empty
RenderedField(profile, f) ==
    IF f \in DOMAIN profile /\ Len(profile[f]) > 0
    THEN IF f = "major" THEN profile[f]
         ELSE join(profile[f], IF f = "essayPrompts" THEN "; " ELSE ", ")
    ELSE "Not specified"

\* ctx prints the seven fields, the completeness and the stage of profile
Renders(ctx, profile) ==
    /\ \A f \in Fields : ctx[f] = RenderedField(profile, f)
    /\ ctx.completeness = ToString(profile.completeness) \o "%"
    /\ ctx.stage = (IF profile.completeness < 60 THEN "collection"
                    ELSE "generation")

\* C15: the prompt sent for a turn renders the profile that is stored at
\* the moment the prompt is assembled (fields, completeness, and the stage
\* derived from that completeness), also when another turn has merged into
\* the profile while this turn was waiting for its attachments.
C15_PromptRendersStored ==
    [][Len(calls') > Len(calls) =>
          Renders(calls'[Len(calls')].prompt.profileContext, userProfile')]_vars

====
